---- MODULE Spec2Model ----
(***************************************************************************)
(* Model of src/src/antlines.py: the antline texture records (AntTex), the *)
(* antline style (AntType), the run-length generator broken_antline_iter   *)
(* and the restyling routine style_antline.                                *)
(*                                                                         *)
(* Numbers.  Scales are kept in hundredths (0.25 is 25).  Overlay lengths  *)
(* are multiples of 8, so length / 2 and (sect_min + sect_max) / 2 * 16    *)
(* are whole numbers and Python's float arithmetic is exact on them.       *)
(*                                                                         *)
(* Randomness.  Python's random module is one process-global generator.    *)
(* It is modelled as a position in a stream selected by the seed: rng is   *)
(* [seed, pos] and tape[seed] holds the words of that seed's stream that   *)
(* have been read so far.  A word that was never read before is chosen     *)
(* freely, a word that was read before is read again unchanged: the stream *)
(* of a seed is an arbitrary but fixed sequence.                           *)
(***************************************************************************)
EXTENDS Integers, Sequences, FiniteSets, TLC

\* Longest overlay explored, in 16-unit cells, and most style_antline calls
\* of one behaviour.
MaxCells == 5
MaxCalls == 3

\* random.randrange(100)
Percent == 100
\* length <= 48: a corner or short antline
ShortLength == 48
\* length // 16, sect_center * 16
CellSize == 16
\* pos.y = -8 * sect_length / 8 * sect_length
HalfWidth == 8

\* const.Antlines.STRAIGHT and const.Antlines.CORNER
STRAIGHT == "signage/indicator_lights/indicator_lights_floor"
CORNER == "signage/indicator_lights/indicator_lights_corner_floor"

\* Python's None, and an entity key that is not set.
None == [class |-> "NoneType"]
Absent == "<unset>"

Max(a, b) == IF a >= b THEN a ELSE b
SeqMax(s) == CHOOSE m \in {s[k] : k \in DOMAIN s} : \A k \in DOMAIN s : s[k] <= m
SeqMin(s) == CHOOSE m \in {s[k] : k \in DOMAIN s} : \A k \in DOMAIN s : s[k] >= m

----------------------------------------------------------------------------
\* AntTex: namedtuple('AntTex', ['texture', 'scale', 'static'])
AntTex(texture, scale, static) ==
    [texture |-> texture, scale |-> scale, static |-> static]

\* conv_float(scale_str, 0.25) on the strings the configurations use; any
\* other string is not a number and gives the default.
conv_float(str, default) ==
    CASE str = "0.25" -> 25
      [] str = "0.5" -> 50
      [] str = "1" -> 100
      [] OTHER -> default

\* AntTex.parse on a childless property whose value splits at '|' into vals.
AntTexParse(vals) ==
    LET scale_str == IF Len(vals) >= 2 THEN vals[1] ELSE "0.25"
        tex == IF Len(vals) >= 2 THEN vals[2] ELSE vals[1]
        opts == IF Len(vals) > 2 THEN {vals[k] : k \in 3 .. Len(vals)} ELSE {}
    IN  AntTex(tex, conv_float(scale_str, 25), "static" \in opts)

\* AntTex.apply: the overlay with the texture applied.
AntTexStaticMutant(tex, overlay) ==
    [overlay EXCEPT !.material = tex.texture, !.endu = tex.scale,
                    !.targetname = IF tex.static THEN @ ELSE Absent]

AntTexApply(tex, overlay) ==
    [overlay EXCEPT !.material = tex.texture, !.endu = tex.scale,
                    !.targetname = IF tex.static THEN Absent ELSE @]

\* AntType.__init__
AntTypeKeepBrokenMutant(tex_straight, tex_corner, broken_straight, broken_corner, broken_chance) ==
    [class |-> "AntType",
     tex_straight |-> tex_straight, tex_corner |-> tex_corner,
     broken_corner |-> broken_corner, broken_straight |-> broken_straight,
     broken_chance |-> broken_chance]

AntType(tex_straight, tex_corner, broken_straight, broken_corner, broken_chance) ==
    [class |-> "AntType",
     tex_straight |-> tex_straight, tex_corner |-> tex_corner,
     broken_corner |-> IF broken_chance = 0 THEN <<>> ELSE broken_corner,
     broken_straight |-> IF broken_chance = 0 THEN <<>> ELSE broken_straight,
     broken_chance |-> broken_chance]

\* prop.find_all(name) followed by AntTex.parse of each: the entries of a
\* property block under one section name, in document order.
RECURSIVE FindAll(_, _)
FindAll(children, name) ==
    IF children = <<>> THEN <<>>
    ELSE LET rest == FindAll(Tail(children), name)
         IN  IF Head(children).name = name
             THEN <<AntTexParse(Head(children).vals)>> \o rest
             ELSE rest

\* AntType.parse
AntTypeParse(prop) ==
    AntType(FindAll(prop.children, "straight"),
            FindAll(prop.children, "corner"),
            FindAll(prop.children, "broken_straight"),
            FindAll(prop.children, "broken_corner"),
            prop.broken_chance)

\* AntType.default
AntTypeDefault ==
    AntType(<<AntTex(STRAIGHT, 25, FALSE)>>, <<AntTex(CORNER, 100, FALSE)>>,
            <<>>, <<>>, 0)

----------------------------------------------------------------------------
\* The configurations explored.
TexA == AntTex("ant/straight_a", 25, FALSE)
TexB == AntTex("ant/straight_b", 50, TRUE)
TexC == AntTex("ant/corner", 100, FALSE)
TexBS == AntTex("ant/broken_straight", 25, TRUE)
TexBC == AntTex("ant/broken_corner", 100, FALSE)

Chances == {0, 40, Percent}

\* A property block with every section, an unknown section and the three
\* scalar forms of a texture.
PropBlock(chance) ==
    [broken_chance |-> chance,
     children |-> << [name |-> "straight", vals |-> <<"ant/straight_a">>],
                     [name |-> "broken_corner", vals |-> <<"1", "ant/broken_corner">>],
                     [name |-> "comment", vals |-> <<"ignored">>],
                     [name |-> "straight", vals |-> <<"0.5", "ant/straight_b", "static">>],
                     [name |-> "corner", vals |-> <<"1", "ant/corner">>],
                     [name |-> "broken_straight",
                      vals |-> <<"x", "ant/broken_straight", "noclip", "static">>] >>]

\* Styles built by the constructor, by parse and by default.  Four of them
\* leave a list empty, which a property block without that section does.
Confs ==
    {AntTypeDefault}
    \cup {AntTypeParse(PropBlock(c)) : c \in Chances}
    \cup {AntType(<<TexA>>, <<>>, <<TexBS>>, <<TexBC>>, 0),
          AntType(<<TexA>>, <<TexC>>, <<>>, <<>>, 40),
          AntType(<<TexA>>, <<TexC>>, <<>>, <<>>, Percent),
          AntType(<<>>, <<>>, <<TexBS>>, <<TexBC>>, 40)}

FloorConfs == {None, AntTypeDefault}

----------------------------------------------------------------------------
\* Overlay entities.  uv holds the lengthwise (y) coordinate of uv0..uv3.
Overlay(id, origin, angles, nz, material, targetname, length) ==
    [id |-> id, origin |-> origin, basisorigin |-> origin, angles |-> angles,
     basisNormal |-> <<0, 0, nz>>, material |-> material, endu |-> 100,
     targetname |-> targetname, startV |-> 1,
     uv |-> <<-(length \div 2), length \div 2, length \div 2, -(length \div 2)>>]

\* srctools.vmf.overlay_bounds and max(bbox_max - bbox_min): the overlay is
\* 16 wide and spans its uv corners lengthwise.
BoundsLength(over) == Max(SeqMax(over.uv) - SeqMin(over.uv), 2 * HalfWidth)

\* Vec(0, 1, 0).rotate_by_str(over['angles']).axis(): the component (1 = x,
\* 2 = y) the overlay runs along.
LongAxis(angles) == IF angles = "0 90 0" THEN 1 ELSE 2

\* The fields of an overlay without the entity's identity.
Fields(over) == [over EXCEPT !.id = 0]

----------------------------------------------------------------------------
VARIABLES
    doc,      \* over.map: the overlay entities of the document
    nextId,   \* the identity the next copied entity gets
    rng,      \* the process-global random generator: [seed, pos]
    tape,     \* seed -> the words of that seed's stream read so far
    pc,       \* where the running call stands
    mode,     \* "style": style_antline runs; "iter": the generator is driven directly
    frame,    \* the locals of the running style_antline call
    gen,      \* the generator object of broken_antline_iter
    runs,     \* the runs the generator has yielded in this call
    chosen,   \* the textures random.choice has picked in this call
    draws,    \* how often this call drew: [trial |-> randrange, choice |-> choice]
    result,   \* the call's outcome: running, returned or the exception raised
    log,      \* the finished style_antline calls before this one: input and outcome
    budget,   \* calls the caller has left: [style, iter]
    styles    \* the <<conf, floor_conf>> pairs the caller passes

vars == <<doc, nextId, rng, tape, pc, mode, frame, gen, runs, chosen, draws,
          result, log, budget, styles>>

\* What random.seed leaves before the program's first seeding.
Unseeded == <<>>

\* random.seed(over['origin'])
RandomSeedKeepMutant(origin) == rng

RandomSeed(origin) == [seed |-> origin, pos |-> 0]

\* The words the generator may produce: the least and the greatest value of
\* randrange(100).
RawWords == {0, Percent - 1}

TapeOf(seed) == IF seed \in DOMAIN tape THEN tape[seed] ELSE <<>>

\* The words the next draw can return: the recorded one, or any.
NextWords ==
    IF rng.pos < Len(TapeOf(rng.seed))
    THEN {TapeOf(rng.seed)[rng.pos + 1]}
    ELSE RawWords

\* One word w is drawn from the global generator.
Consume(w) ==
    /\ rng' = [rng EXCEPT !.pos = @ + 1]
    /\ tape' = [s \in DOMAIN tape \cup {rng.seed} |->
                  IF s = rng.seed /\ rng.pos >= Len(TapeOf(s))
                  THEN Append(TapeOf(s), w)
                  ELSE TapeOf(s)]

\* random.randrange(100) < chance
TrialOffByOneMutant(w, chance) == (w % Percent) + 1 < chance

Trial(w, chance) == (w % Percent) < chance

\* random.choice(seq), for a non-empty seq.
Choice(seq, w) == seq[(w % Len(seq)) + 1]

----------------------------------------------------------------------------
\* broken_antline_iter(dist, chance): the generator object.  state is
\* "created" before the first next(), "loop" inside the for loop and
\* "final" after the last yield.
NoGen ==
    [dist |-> 0, chance |-> 0, run_start |-> 0, last_type |-> FALSE, i |-> 1,
     state |-> "none"]

GenCreate(dist, chance) ==
    [dist |-> dist, chance |-> chance, run_start |-> 0, last_type |-> FALSE,
     i |-> 1, state |-> "created"]

\* run_start = 0; last_type = random.randrange(100) < chance
GenFirst(g, w) == [g EXCEPT !.last_type = Trial(w, g.chance), !.state = "loop"]

\* One pass of the for loop with i = g.i: the generator after it, and the
\* run it yields (none: <<>>).
GenTrialKeepStartMutant(g, w) ==
    LET next_type == Trial(w, g.chance)
    IN  IF next_type # g.last_type
        THEN [gen |-> [g EXCEPT !.last_type = next_type, !.i = @ + 1],
              yield |-> << <<g.run_start, g.i, g.last_type>> >>]
        ELSE [gen |-> [g EXCEPT !.i = @ + 1], yield |-> <<>>]

GenTrial(g, w) ==
    LET next_type == Trial(w, g.chance)
    IN  IF next_type # g.last_type
        THEN [gen |-> [g EXCEPT !.last_type = next_type, !.run_start = g.i,
                                !.i = @ + 1],
              yield |-> << <<g.run_start, g.i, g.last_type>> >>]
        ELSE [gen |-> [g EXCEPT !.i = @ + 1], yield |-> <<>>]

\* yield run_start, int(dist), last_type
GenFinal(g) ==
    [gen |-> [g EXCEPT !.state = "final"],
     yield |-> << <<g.run_start, g.dist, g.last_type>> >>]

----------------------------------------------------------------------------
\* The locals of style_antline.  input is the overlay as it was passed and
\* docBefore the document at that moment.
NoFrame ==
    [over |-> 0, input |-> None, docBefore |-> {}, conf0 |-> None,
     floor_conf |-> None, conf |-> None, kind |-> "none", mats |-> <<>>,
     broken_mats |-> <<>>, length |-> 0, long_axis |-> 0, min_origin |-> <<>>]

\* The entity the running call was given, as the document holds it now.
Current == CHOOSE o \in doc : o.id = frame.over

\* if over['material'] == STRAIGHT / elif == CORNER / else
ClassifyElseCornerMutant(material) ==
    IF material = STRAIGHT THEN "straight" ELSE "corner"

Classify(material) ==
    CASE material = STRAIGHT -> "straight"
      [] material = CORNER -> "corner"
      [] OTHER -> "other"

\* The section made for the run <<sect_min, sect_max, is_broken>>: a copy of
\* over with startV, origin, basisorigin and uv0..uv3 rewritten.
Section(over, id, run, min_origin, long_axis) ==
    LET sect_length == run[2] - run[1]
        sect_origin == [min_origin EXCEPT
                          ![long_axis] = @ + ((run[1] + run[2]) * CellSize) \div 2]
    IN  [over EXCEPT !.id = id,
                     !.startV = sect_length,
                     !.origin = sect_origin,
                     !.basisorigin = sect_origin,
                     !.uv = [k \in DOMAIN over.uv |->
                               IF over.uv[k] < 0
                               THEN -HalfWidth * sect_length
                               ELSE HalfWidth * sect_length]]

\* The outcome of a call: running, returned, or the exception raised.
Running == [status |-> "none", arg |-> ""]
Returned == [status |-> "ok", arg |-> ""]

\* The call ends by raising exc(arg).
Raise(exc, arg) ==
    /\ result' = [status |-> exc, arg |-> arg]
    /\ pc' = "done"

\* if length <= 48
IsShortStrictMutant(length) == length < ShortLength

IsShort(length) == length <= ShortLength

\* What a finished style_antline call was given and what it did.
Summary ==
    [id |-> frame.over,
     key |-> [over |-> Fields(frame.input), conf |-> frame.conf0,
              floor_conf |-> frame.floor_conf],
     out |-> [result |-> result, runs |-> runs, chosen |-> chosen]]

\* A new call starts: the one before it, if it was style_antline, is logged.
StartCall ==
    /\ pc \in {"idle", "done"}
    /\ log' = IF pc = "done" /\ mode = "style" THEN Append(log, Summary) ELSE log
    /\ runs' = <<>>
    /\ chosen' = <<>>
    /\ draws' = [trial |-> 0, choice |-> 0]

\* style_antline(over, conf, floor_conf) up to its first random draw:
\* seeding, the choice of the configuration, the classification and the
\* branch on broken_chance and on the length.
style_antline(over, conf0, floor_conf) ==
    /\ StartCall
    /\ budget.style > 0
    /\ budget' = [budget EXCEPT !.style = @ - 1]
    /\ mode' = "style"
    /\ rng' = RandomSeed(over.origin)
    /\ LET conf == IF over.basisNormal[3] # 0 THEN floor_conf ELSE conf0
           kind == Classify(over.material)
           length == BoundsLength(over)
           long_axis == LongAxis(over.angles)
           base == [over |-> over.id, input |-> over, docBefore |-> doc,
                    conf0 |-> conf0, floor_conf |-> floor_conf, conf |-> conf,
                    kind |-> kind, mats |-> <<>>, broken_mats |-> <<>>,
                    length |-> 0, long_axis |-> 0, min_origin |-> <<>>]
       IN  IF kind = "other"
           THEN /\ Raise("ValueError", over.material)
                /\ frame' = base
                /\ gen' = NoGen
           ELSE IF conf = None
           THEN \* conf.tex_straight on None
                /\ Raise("AttributeError", "NoneType")
                /\ frame' = base
                /\ gen' = NoGen
           ELSE LET mats == IF kind = "straight" THEN conf.tex_straight
                                                 ELSE conf.tex_corner
                    broken_mats == IF kind = "straight" THEN conf.broken_straight
                                                        ELSE conf.broken_corner
                    fr == [base EXCEPT !.mats = mats, !.broken_mats = broken_mats]
                IN  /\ result' = Running
                    /\ IF conf.broken_chance = 0
                       THEN /\ pc' = "apply"
                            /\ frame' = fr
                            /\ gen' = NoGen
                       ELSE IF IsShort(length)
                       THEN /\ pc' = "coin"
                            /\ frame' = [fr EXCEPT !.length = length,
                                                   !.long_axis = long_axis]
                            /\ gen' = NoGen
                       ELSE /\ pc' = "gen"
                            /\ frame' = [fr EXCEPT
                                 !.length = length,
                                 !.long_axis = long_axis,
                                 !.min_origin = [over.origin EXCEPT
                                     ![long_axis] = @ - length \div 2]]
                            /\ gen' = GenCreate(length \div CellSize,
                                                conf.broken_chance)
    /\ UNCHANGED <<doc, nextId, tape, styles>>

\* The caller styles an overlay of the document.
StyleCall ==
    \E over \in doc : \E st \in styles : style_antline(over, st[1], st[2])

\* if random.randrange(100) < conf.broken_chance: mats = broken_mats
ShortCoin ==
    /\ pc = "coin"
    /\ \E w \in NextWords :
         /\ Consume(w)
         /\ frame' = IF Trial(w, frame.conf.broken_chance)
                     THEN [frame EXCEPT !.mats = frame.broken_mats]
                     ELSE frame
    /\ draws' = [draws EXCEPT !.trial = @ + 1]
    /\ pc' = "apply"
    /\ UNCHANGED <<doc, nextId, mode, gen, runs, chosen, result, log, budget, styles>>

\* random.choice(mats).apply(over)
ApplyOriginal ==
    /\ pc = "apply"
    /\ IF frame.mats = <<>>
       THEN /\ Raise("IndexError", "empty sequence")
            /\ UNCHANGED <<doc, rng, tape, chosen, draws>>
       ELSE /\ \E w \in NextWords :
                 /\ Consume(w)
                 /\ doc' = (doc \ {Current})
                             \cup {AntTexApply(Choice(frame.mats, w), Current)}
                 /\ chosen' = Append(chosen, Choice(frame.mats, w).texture)
            /\ draws' = [draws EXCEPT !.choice = @ + 1]
            /\ result' = Returned
            /\ pc' = "done"
    /\ UNCHANGED <<nextId, mode, frame, gen, runs, log, budget, styles>>

\* The generator hands a run to whoever iterates it.
Deliver(yield, final) ==
    /\ runs' = runs \o yield
    /\ IF yield = <<>>
       THEN UNCHANGED <<pc, result>>
       ELSE IF mode = "style"
       THEN /\ pc' = "sect"
            /\ UNCHANGED result
       ELSE /\ pc' = IF final THEN "done" ELSE "gen"
            /\ result' = IF final THEN Returned ELSE result

\* broken_antline_iter: the first draw.
IterFirst ==
    /\ pc = "gen"
    /\ gen.state = "created"
    /\ \E w \in NextWords :
         /\ Consume(w)
         /\ gen' = GenFirst(gen, w)
    /\ draws' = [draws EXCEPT !.trial = @ + 1]
    /\ UNCHANGED <<doc, nextId, pc, mode, frame, runs, chosen, result, log, budget, styles>>

\* broken_antline_iter: one pass of the for loop.
IterTrial ==
    /\ pc = "gen"
    /\ gen.state = "loop"
    /\ gen.i < gen.dist
    /\ \E w \in NextWords :
         /\ Consume(w)
         /\ gen' = GenTrial(gen, w).gen
         /\ Deliver(GenTrial(gen, w).yield, FALSE)
    /\ draws' = [draws EXCEPT !.trial = @ + 1]
    /\ UNCHANGED <<doc, nextId, mode, frame, chosen, log, budget, styles>>

\* broken_antline_iter: the loop is over, the last run is yielded.
IterFinal ==
    /\ pc = "gen"
    /\ gen.state = "loop"
    /\ gen.i >= gen.dist
    /\ gen' = GenFinal(gen).gen
    /\ Deliver(GenFinal(gen).yield, TRUE)
    /\ UNCHANGED <<doc, nextId, rng, tape, mode, frame, chosen, draws, log, budget, styles>>

\* The body of style_antline's for loop for the run just yielded: the copy
\* is added to the document, reshaped, and then textured.
MakeSection ==
    /\ pc = "sect"
    /\ LET run == runs[Len(runs)]
           sect_mats == IF run[3] THEN frame.broken_mats ELSE frame.mats
           new_over == Section(Current, nextId, run, frame.min_origin,
                               frame.long_axis)
       IN  /\ nextId' = nextId + 1
           /\ IF sect_mats = <<>>
              THEN /\ doc' = doc \cup {new_over}
                   /\ Raise("IndexError", "empty sequence")
                   /\ UNCHANGED <<rng, tape, chosen, draws>>
              ELSE /\ \E w \in NextWords :
                        /\ Consume(w)
                        /\ doc' = doc \cup {AntTexApply(Choice(sect_mats, w), new_over)}
                        /\ chosen' = Append(chosen, Choice(sect_mats, w).texture)
                   /\ draws' = [draws EXCEPT !.choice = @ + 1]
                   /\ pc' = IF gen.state = "final" THEN "remove" ELSE "gen"
                   /\ UNCHANGED result
    /\ UNCHANGED <<mode, frame, gen, runs, log, budget, styles>>

\* over.remove(); return
RemoveOriginal ==
    /\ pc = "remove"
    /\ doc' = doc \ {Current}
    /\ result' = Returned
    /\ pc' = "done"
    /\ UNCHANGED <<nextId, rng, tape, mode, frame, gen, runs, chosen, draws, log, budget, styles>>

\* broken_antline_iter(dist, chance) iterated directly by a caller.
IterCall ==
    /\ StartCall
    /\ budget.iter > 0
    /\ budget' = [budget EXCEPT !.iter = @ - 1]
    /\ mode' = "iter"
    /\ \E dist \in 0 .. MaxCells : \E chance \in Chances :
         gen' = GenCreate(dist, chance)
    /\ frame' = NoFrame
    /\ result' = Running
    /\ pc' = "gen"
    /\ UNCHANGED <<doc, nextId, rng, tape, styles>>

----------------------------------------------------------------------------
\* The documents explored.
Origin1 == <<64, 128, 0>>
Origin2 == <<-256, 0, 64>>

Lengths == {HalfWidth * k : k \in 4 .. 2 * MaxCells}

Bystander == Overlay(2, Origin2, "0 0 0", 0, CORNER, "ant_b", 2 * HalfWidth)

InitCommon ==
    /\ rng = [seed |-> Unseeded, pos |-> 0]
    /\ tape = [s \in {} |-> <<>>]
    /\ pc = "idle"
    /\ mode = "none"
    /\ frame = NoFrame
    /\ gen = NoGen
    /\ runs = <<>>
    /\ chosen = <<>>
    /\ draws = [trial |-> 0, choice |-> 0]
    /\ result = Running
    /\ log = <<>>

\* One overlay of any shape beside a bystander, styled once with any style.
InitStyle ==
    /\ InitCommon
    /\ \E angles \in {"0 0 0", "0 90 0"}, nz \in {0, 1},
          material \in {STRAIGHT, CORNER, "tools/toolsnodraw"},
          targetname \in {"ant_a", Absent}, length \in Lengths :
         doc = {Overlay(1, Origin1, angles, nz, material, targetname, length),
                Bystander}
    /\ nextId = 3
    /\ budget = [style |-> 1, iter |-> 0]
    /\ styles = Confs \X FloorConfs

\* No document: the generator is driven directly, once.
InitIter ==
    /\ InitCommon
    /\ doc = {}
    /\ nextId = 1
    /\ budget = [style |-> 0, iter |-> 1]
    /\ styles = {}

Init == InitStyle \/ InitIter

NextStyle ==
    \/ StyleCall
    \/ ShortCoin
    \/ ApplyOriginal
    \/ IterFirst
    \/ IterTrial
    \/ IterFinal
    \/ MakeSection
    \/ RemoveOriginal

Next == NextStyle \/ IterCall

Spec == Init /\ [][Next]_vars

\* Two overlays with the same fields and a third elsewhere, styled in any
\* order with one style; a styled overlay or a section may be styled again.
InitRepeat ==
    /\ InitCommon
    /\ \E length \in {ShortLength, ShortLength + HalfWidth} :
         doc = {Overlay(1, Origin1, "0 0 0", 0, STRAIGHT, "ant_a", length),
                Overlay(2, Origin1, "0 0 0", 0, STRAIGHT, "ant_a", length),
                Overlay(3, Origin2, "0 90 0", 0, STRAIGHT, Absent,
                        ShortLength + HalfWidth)}
    /\ nextId = 4
    /\ budget = [style |-> MaxCalls, iter |-> 0]
    /\ styles = {<<AntTypeParse(PropBlock(40)), AntTypeDefault>>}

SpecRepeat == InitRepeat /\ [][NextStyle]_vars

----------------------------------------------------------------------------
\* What the properties below speak about.
StyleDone == mode = "style" /\ pc = "done"

Ids(d) == {o.id : o \in d}

\* The overlays the running call has added, and the k-th of them.
Clones == {o \in doc : o.id \notin Ids(frame.docBefore)}
CloneAt(k) == CHOOSE o \in Clones : o.id = nextId - Cardinality(Clones) + k - 1

\* Every overlay but the one the call was given is as it was.
OthersUntouched ==
    {o \in doc : o.id \in Ids(frame.docBefore) /\ o.id # frame.over}
        = {o \in frame.docBefore : o.id # frame.over}

\* The original is in the document with its place and shape as passed.
ShapeKept ==
    /\ frame.over \in Ids(doc)
    /\ Current.origin = frame.input.origin
    /\ Current.basisorigin = frame.input.basisorigin
    /\ Current.startV = frame.input.startV
    /\ Current.uv = frame.input.uv

\* Overlay o carries entry e, and its targetname is gone if e is static
\* and the original's otherwise.
Carries(o, e) ==
    /\ o.material = e.texture
    /\ o.endu = e.scale
    /\ o.targetname = IF e.static THEN Absent ELSE frame.input.targetname

Entries(list) == {list[k] : k \in DOMAIN list}

\* The intact and the broken list of the selected style for the material
\* the overlay was passed with.
IntactList ==
    IF frame.input.material = STRAIGHT THEN frame.conf.tex_straight
                                       ELSE frame.conf.tex_corner
BrokenList ==
    IF frame.input.material = STRAIGHT THEN frame.conf.broken_straight
                                       ELSE frame.conf.broken_corner

\* A call that got past the choice of a style and the classification.
Classified ==
    /\ mode = "style"
    /\ pc # "idle"
    /\ frame.conf # None
    /\ frame.input.material \in {STRAIGHT, CORNER}

RECURSIVE SumLen(_)
SumLen(rs) == IF rs = <<>> THEN 0 ELSE (Head(rs)[2] - Head(rs)[1]) + SumLen(Tail(rs))

\* C1: for every cell count >= 1, every chance and every outcome of the
\* draws, the runs yielded by broken_antline_iter have end > start, the first
\* starts at 0, each starts where the one before it ended (so starts ascend),
\* adjacent runs differ in is_broken, and once the generator is exhausted the
\* last run ends at the cell count and the run lengths sum to the cell count.
C1_RunsTile ==
    (gen.state \in {"loop", "final"} /\ gen.dist >= 1) =>
        /\ \A k \in 1 .. Len(runs) : runs[k][2] > runs[k][1]
        /\ runs # <<>> => runs[1][1] = 0
        /\ \A k \in 1 .. Len(runs) - 1 :
             /\ runs[k + 1][1] = runs[k][2]
             /\ runs[k + 1][1] > runs[k][1]
             /\ runs[k + 1][3] # runs[k][3]
        /\ gen.state = "final" =>
             /\ runs # <<>>
             /\ runs[Len(runs)][2] = gen.dist
             /\ SumLen(runs) = gen.dist

C1_Witness ==
    /\ mode = "iter"
    /\ gen.state = "final"
    /\ gen.dist >= 4
    /\ Len(runs) >= 3

\* C2 as claimed: a call that fragments removes the original and leaves new
\* overlays whose segments [origin - 8*startV, origin + 8*startV] along the
\* lengthwise axis are contiguous and together are exactly the original's
\* interval [origin - length/2, origin + length/2], for every length > 48.
C2_SameSpan ==
    (StyleDone /\ result = Returned /\ runs # <<>>) =>
        LET a == frame.long_axis
            n == Cardinality(Clones)
            lo(o) == o.origin[a] - HalfWidth * o.startV
            hi(o) == o.origin[a] + HalfWidth * o.startV
            length == BoundsLength(frame.input)
        IN  /\ frame.over \notin Ids(doc)
            /\ n = Len(runs)
            /\ lo(CloneAt(1)) = frame.input.origin[a] - length \div 2
            /\ \A k \in 1 .. n - 1 : lo(CloneAt(k + 1)) = hi(CloneAt(k))
            /\ hi(CloneAt(n)) = frame.input.origin[a] + length \div 2

\* C3: two style_antline calls on overlays with the same fields and the same
\* configuration choose the same textures and yield the same runs (and end
\* the same way), whatever was called before each of them.
CallsSoFar == log \o (IF StyleDone THEN <<Summary>> ELSE <<>>)

C3_Deterministic ==
    \A i, j \in 1 .. Len(CallsSoFar) :
        CallsSoFar[i].key = CallsSoFar[j].key
            => CallsSoFar[i].out = CallsSoFar[j].out

C3_Witness ==
    /\ Len(CallsSoFar) = 3
    /\ CallsSoFar[1].key = CallsSoFar[3].key
    /\ CallsSoFar[1].id # CallsSoFar[3].id
    /\ CallsSoFar[2].key.over.origin # CallsSoFar[1].key.over.origin
    /\ Len(CallsSoFar[2].out.runs) >= 2
    /\ Len(CallsSoFar[3].out.runs) >= 2

\* C4 as claimed: with floor_conf None the surface selection changes
\* nothing: conf stays selected and the call goes on to texture the overlay
\* from it, also on a floor or ceiling.
C4_NoneKeepsConf ==
    (mode = "style" /\ pc # "idle" /\ frame.floor_conf = None) =>
        /\ frame.conf = frame.conf0
        /\ result.status # "AttributeError"

\* C5: an overlay whose material is neither known antline texture makes
\* style_antline raise an error naming the material at once, the document and
\* every overlay in it left as they were.
C5_UnknownMaterial ==
    (mode = "style" /\ pc # "idle"
       /\ frame.input.material \notin {STRAIGHT, CORNER}) =>
        /\ pc = "done"
        /\ result = [status |-> "ValueError", arg |-> frame.input.material]
        /\ doc = frame.docBefore
        /\ runs = <<>>
        /\ chosen = <<>>

C5_Witness ==
    /\ StyleDone
    /\ frame.input.material = "tools/toolsnodraw"
    /\ result.status = "ValueError"
    /\ frame.input.targetname = "ant_a"

\* C6: a style built with broken_chance = 0 has both broken lists empty
\* whatever was supplied, and style_antline with such a style selected never
\* fragments: no overlay is created or removed, nothing is drawn for a
\* trial, and the original keeps its shape and is textured from the intact
\* list of its shape (a call that finds that list empty raises instead and
\* changes nothing).
C6_ZeroChance ==
    /\ \A st \in styles : \A k \in {1, 2} :
         (st[k] # None /\ st[k].broken_chance = 0)
             => st[k].broken_straight = <<>> /\ st[k].broken_corner = <<>>
    /\ (Classified /\ frame.conf.broken_chance = 0) =>
         /\ pc \in {"apply", "done"}
         /\ Ids(doc) = Ids(frame.docBefore)
         /\ OthersUntouched
         /\ ShapeKept
         /\ runs = <<>>
         /\ draws.trial = 0
         /\ pc = "done" =>
              IF IntactList = <<>>
              THEN result.status = "IndexError" /\ doc = frame.docBefore
              ELSE /\ result = Returned
                   /\ \E e \in Entries(IntactList) : Carries(Current, e)

C6_Witness ==
    /\ StyleDone
    /\ frame.conf = AntTypeParse(PropBlock(0))
    /\ BoundsLength(frame.input) > ShortLength
    /\ result = Returned
    /\ Current.material = "ant/straight_b"

\* C7: with broken_chance = 100 every trial succeeds: the generator yields
\* the single run (0, cell_count, true) for every cell_count >= 1, and
\* style_antline on a straight overlay longer than 48, with a broken-straight
\* list to choose from, removes the original and leaves exactly one new
\* overlay, with startV = floor(length / 16), textured from that list.
C7_AlwaysBroken ==
    /\ (gen.state = "final" /\ gen.chance = Percent /\ gen.dist >= 1) =>
         runs = << <<0, gen.dist, TRUE>> >>
    /\ (StyleDone /\ Classified /\ frame.conf.broken_chance = Percent
          /\ frame.input.material = STRAIGHT
          /\ BoundsLength(frame.input) > ShortLength
          /\ frame.conf.broken_straight # <<>>) =>
         /\ result = Returned
         /\ frame.over \notin Ids(doc)
         /\ OthersUntouched
         /\ Cardinality(Clones) = 1
         /\ \A o \in Clones :
              /\ o.startV = BoundsLength(frame.input) \div CellSize
              /\ \E e \in Entries(frame.conf.broken_straight) : Carries(o, e)

C7_Witness ==
    /\ StyleDone
    /\ Classified
    /\ frame.conf.broken_chance = Percent
    /\ frame.input.material = STRAIGHT
    /\ BoundsLength(frame.input) = 5 * CellSize
    /\ result = Returned
    /\ \E o \in Clones : o.startV = 5 /\ o.material = "ant/broken_straight"

\* C8: with broken_chance > 0 and a bounding length <= 48 style_antline does
\* not fragment: no overlay is added or removed, the original keeps origin,
\* startV and uv0..uv3, exactly one trial is drawn, its outcome decides
\* between the intact and the broken list of the shape, and the original is
\* retextured in place with an entry of that list (a call that finds that
\* list empty raises instead and changes nothing).
C8_ShortInPlace ==
    (Classified /\ frame.conf.broken_chance > 0
       /\ BoundsLength(frame.input) <= ShortLength) =>
        /\ pc \in {"coin", "apply", "done"}
        /\ Ids(doc) = Ids(frame.docBefore)
        /\ OthersUntouched
        /\ ShapeKept
        /\ runs = <<>>
        /\ draws.trial = (IF pc = "coin" THEN 0 ELSE 1)
        /\ pc = "done" =>
             LET word == TapeOf(frame.input.origin)[1]
                 list == IF word % Percent < frame.conf.broken_chance
                         THEN BrokenList ELSE IntactList
             IN  IF list = <<>>
                 THEN result.status = "IndexError" /\ doc = frame.docBefore
                 ELSE /\ result = Returned
                      /\ draws.choice = 1
                      /\ \E e \in Entries(list) : Carries(Current, e)

C8_Witness ==
    /\ StyleDone
    /\ Classified
    /\ frame.input.material = CORNER
    /\ frame.conf.broken_chance = 40
    /\ BoundsLength(frame.input) = ShortLength
    /\ result = Returned
    /\ Current.material = "ant/broken_corner"

\* C9: every overlay style_antline textures, the original in place or a
\* section, gets the entry's texture as material and the entry's scale, and
\* loses targetname if the entry is static and keeps it as it was otherwise.
C9_ApplyEffect ==
    (mode = "style" /\ pc # "idle") =>
        /\ (runs = <<>> /\ chosen # <<>>) =>
             \E e \in Entries(frame.mats) :
                 e.texture = chosen[1] /\ Carries(Current, e)
        /\ runs # <<>> =>
             \A k \in 1 .. Len(chosen) :
                 \E e \in Entries(IF runs[k][3] THEN frame.broken_mats
                                               ELSE frame.mats) :
                     e.texture = chosen[k] /\ Carries(CloneAt(k), e)

C9_Witness ==
    /\ StyleDone
    /\ Classified
    /\ frame.input.targetname = "ant_a"
    /\ \E o \in Clones : o.material = "ant/broken_straight" /\ o.targetname = Absent
    /\ \E o \in Clones : o.material = "ant/straight_a" /\ o.targetname = "ant_a"

\* C10 as claimed: a call that raises leaves the document holding exactly
\* the overlays it held before; a call that fragments keeps the original
\* until every run has its section and ends with one new overlay per run.
C10_AllOrNothing ==
    /\ (StyleDone /\ result # Returned) => doc = frame.docBefore
    /\ (mode = "style" /\ pc \in {"gen", "sect", "remove"}) =>
         frame.over \in Ids(doc)
    /\ (StyleDone /\ result = Returned /\ runs # <<>>) =>
         /\ frame.over \notin Ids(doc)
         /\ Cardinality(Clones) = Len(runs)

====
